---- MODULE Spec2Model ----
(***************************************************************************)
(* A model of the NER labeler of this repository.                          *)
(*                                                                         *)
(* The labeler keeps one list of entities for the text on display.  Its    *)
(* add and remove handlers are the callbacks of working_demo.py (the       *)
(* label-button callback and remove_entity); the navigation, load and save *)
(* callbacks are those of bigquery_demo.py; the persistence store is       *)
(* BigQueryNERManager of bigquery_integration.py.  The entities-store of   *)
(* working_demo.py and the entities property of the NERLabeler component   *)
(* of bigquery_demo.py are the one variable `entities`.                    *)
(*                                                                         *)
(* The handlers of the NERLabeler component itself (the stamping of an     *)
(* entity with its author, the annotation history it keeps, the user form) *)
(* are JavaScript that the Python sources only declare and call.  They are *)
(* modelled from the specification: Stamp, record, SetUser.                *)
(*                                                                         *)
(* Strings are sequences of one-character strings.  An offset is zero      *)
(* based, a span is half open, as in the sources.                          *)
(***************************************************************************)
EXTENDS Integers, Sequences, FiniteSets, TLC

\* ------------------------------------------------------------------ bounds

\* Longest entity list an add still extends.
MaxEntities == 2
\* Longest annotation history an add or remove still extends.
MaxHistory == 3
\* Last reading of the millisecond clock (Date.now()).
MaxClock == 4
\* Number of distinct values of Math.random() the model tells apart.
RandValues == 2
\* Longest text selection, in characters.
MaxSelLen == 2
\* Most rows the annotations table holds before a save is no longer taken.
MaxRows == 2
\* Most rows the annotations table holds in the full labeler of bigquery_demo.py,
\* and most adds and removes of a session there.
MaxStored == 1
MaxEdits == 2

\* ------------------------------------------------------------ text helpers

Min(a, b) == IF a < b THEN a ELSE b

\* s[a:b] of Python, s.substring(a, b) of JavaScript, for 0 <= a <= b <= Len(s).
Slice(s, a, b) == SubSeq(s, a + 1, Min(b, Len(s)))

IsSpace(c) == c = " "

RECURSIVE trimStart(_)
trimStart(s) ==
    IF s # <<>> /\ IsSpace(Head(s)) THEN trimStart(Tail(s)) ELSE s

RECURSIVE trimEnd(_)
trimEnd(s) ==
    IF s # <<>> /\ IsSpace(s[Len(s)]) THEN trimEnd(SubSeq(s, 1, Len(s) - 1)) ELSE s

\* String.prototype.trim: the string without its leading and trailing white space.
trim(s) == trimEnd(trimStart(s))

\* --------------------------------------------------------------- the page

\* The text on display when no text was loaded: a short stand-in for SAMPLE_TEXT,
\* with white space inside it.
SAMPLE_TEXT == <<"A", " ", "B">>

\* The text of the page before and after the text container, in document order.
PageBefore == <<"P">>
PageAfter == <<"Q">>

\* The text of the whole page around a container holding `content`.
Document(content) == PageBefore \o content \o PageAfter

\* A selection is a range [a, b) of the page's text: window.getSelection() is the
\* selection of the document, not of the text container.
Selections(content) ==
    { <<a, b>> \in (0..Len(Document(content))) \X (0..Len(Document(content))) :
        a <= b /\ b - a <= MaxSelLen }

\* selection.toString()
selectionToString(content, sel) == Slice(Document(content), sel[1], sel[2])

\* beforeRange.toString().length: the range from the start of the container to the
\* start of the selection.  setEnd with a point before the range's start collapses
\* the range onto that point, so a selection starting before the container gives 0.
beforeRangeLength(sel) ==
    IF sel[1] < Len(PageBefore) THEN 0 ELSE sel[1] - Len(PageBefore)

\* The label buttons and their label types.
label_map ==
    [b \in {"btn-person", "btn-org", "btn-loc", "btn-misc"} |->
        CASE b = "btn-person" -> "PERSON"
          [] b = "btn-org" -> "ORGANIZATION"
          [] b = "btn-loc" -> "LOCATION"
          [] b = "btn-misc" -> "MISCELLANEOUS"]

\* The buttons the model clicks.
Buttons == {"btn-person", "btn-org"}

\* The selections that lie inside the text container.
InContainer(content) ==
    { sel \in Selections(content) :
        /\ sel[1] >= Len(PageBefore)
        /\ sel[2] <= Len(PageBefore) + Len(content) }

\* The selections of single words of the text.
Words(content) ==
    { sel \in InContainer(content) :
        /\ sel[2] = sel[1] + 1
        /\ ~IsSpace(Document(content)[sel[2]]) }

\* The texts to annotate, by priority: a stand-in for the demo texts.
TextIds == <<"text_001", "text_002">>
TextContent(text_id) ==
    CASE text_id = "text_001" -> <<"A", " ", "B">>
      [] text_id = "text_002" -> <<"C">>

\* The value of the batch size input.
BatchSize == 5

\* ------------------------------------------------------------------- ids

\* An entity id is a number (Date.now() + Math.random(), in units of 1/RandValues
\* of a millisecond) or, once read back from the annotations table, a string: the
\* text ids prefixed to it, outermost first, and the number.
NumId(n) == [pre |-> <<>>, n |-> n]
NoId == NumId(-1)

\* Math.random() is in [0, 1); the sum with Date.now() is rounded to a double, which
\* for a draw close to 1 is the next millisecond: the draw RandValues stands for it.
Rand == 0..RandValues

\* Date.now() + Math.random()
NewId(t, r) == NumId(t * RandValues + r)

\* The clock readings a handler may take: the last reading or the next.
Clock(t) == t..Min(t + 1, MaxClock)

\* The readings of a handler that runs in a later millisecond than the last one.
Later(t) == (t + 1)..Min(t + 1, MaxClock)

\* The reading of a handler that runs in the millisecond of the last one.
SameMs(t) == {t}

\* ------------------------------------------------------------ the users

Users == {"user1", "user2"}
NoUser == "none"
Username(u) ==
    CASE u = "user1" -> "alice" [] u = "user2" -> "bob" [] u = "user3" -> "alice"
      [] OTHER -> ""

\* The users of one session when a third user gives the name of the first: the
\* id and the name of a user are separate fields.
Annotators == Users \cup {"user3"}

\* A time stamp as text: its instant and the format it is written in.
Timestamp(fmt, t) == [fmt |-> fmt, t |-> t]
NoTimestamp == Timestamp("absent", 0)

VARIABLES
    text,               \* the content of the text on display
    entities,           \* the entity list of the labeler
    annotationHistory,  \* the annotation history of the labeler
    currentUser,        \* the current user of the labeler, or NoUser
    now,                \* the last reading of the clock
    selection_info,     \* the feedback message of the last label click
    issued,             \* the ids of the remove buttons ever displayed
    last,               \* the last operation: what it was given and what it did
    demo_mode,          \* whether the BigQuery manager could not be built
    texts_store,        \* the ids of the loaded texts, in order
    current_text_index, \* the index of the text on display
    nav_buttons,        \* the disabled flags of the Previous, Next and Save buttons
    status_messages,    \* the message of the last load or save
    texts_status,       \* the texts table: the status of each text
    annotations,        \* the annotations table: its rows, oldest first
    annotation_history, \* the annotation_history table: its rows, oldest first
    project,            \* the BigQuery project: what exists in it, what was created
    manager             \* the BigQueryNERManager, once its construction was tried

labelerVars == <<text, entities, annotationHistory, currentUser, now, selection_info,
                 issued, last>>
appVars == <<demo_mode, texts_store, current_text_index, nav_buttons, status_messages>>
tableVars == <<texts_status, annotations, annotation_history>>
setupVars == <<project, manager>>
vars == <<labelerVars, appVars, tableVars, setupVars>>

\* ------------------------------------------------------ the component

\* The author and creation time the component writes into a new entity.
Stamp(e, user, t) ==
    [id |-> e.id, text |-> e.text, label |-> e.label, start |-> e.start,
     end |-> e.end, user_id |-> user, username |-> Username(user),
     timestamp |-> Timestamp("Z", t), confidence |-> "absent",
     metadata |-> "absent"]

\* The history entry of one add or remove: a copy of the entity, the acting user.
record(action, entity, user, t, history) ==
    [id |-> Len(history) + 1, action |-> action, entity |-> entity,
     user_id |-> user, username |-> Username(user),
     timestamp |-> Timestamp("Z", t)]

\* The record of the last callback.  op: the callback; id: the entity id it was
\* about; ok: whether it did what it was asked to; result: the kind of result it
\* handed back; button, sel: the label button and the selection of an add;
\* n_clicks: the click count a remove was fired with; chained: a remove of the
\* id the callback before it added;
\* pre, hpre: the entity list and the length of the history before that add.
Op(op, id, ok, result) ==
    [op |-> op, id |-> id, ok |-> ok, result |-> result, button |-> "",
     sel |-> <<0, 0>>, n_clicks |-> 0, chained |-> FALSE, pre |-> <<>>, hpre |-> 0]

\* The user form of the component, filled in by one of the users U.
SetUserFrom(U) ==
    \E u \in U :
        /\ currentUser # u
        /\ currentUser' = u
        /\ UNCHANGED <<text, entities, annotationHistory, now, selection_info, issued, last>>
        /\ UNCHANGED <<appVars, tableVars>>
        /\ UNCHANGED setupVars

SetUser == SetUserFrom(Users)

\* ------------------------------------------------------ working_demo.py

\* The label-button callback with a check it does not have: a selection whose
\* span meets the span of an entity of the list is turned down.
add_entity_disjoint(current_entities, content, triggered, button, sel, t, r, user) ==
    LET selectedText == trim(selectionToString(content, sel))
        start == beforeRangeLength(sel)
        newEntity == [id |-> NewId(t, r), text |-> selectedText,
                      label |-> label_map[button], start |-> start,
                      end |-> start + Len(selectedText)]
    IN  IF ~triggered
        THEN [entities |-> current_entities,
              message |-> "Select some text and click a label button"]
        ELSE IF button \notin DOMAIN label_map
        THEN [entities |-> current_entities, message |-> "No label selected"]
        ELSE IF selectedText = <<>>
        THEN [entities |-> current_entities, message |-> "No text selected"]
        ELSE IF \E i \in DOMAIN current_entities :
                    /\ current_entities[i].start < newEntity.end
                    /\ newEntity.start < current_entities[i].end
        THEN [entities |-> current_entities, message |-> "Overlapping span"]
        ELSE [entities |-> Append(current_entities, Stamp(newEntity, user, t)),
              message |-> "Labeled"]

\* The label-button callback: the entity list and the message it returns.
add_entity(current_entities, content, triggered, button, sel, t, r, user) ==
    LET selectedText == trim(selectionToString(content, sel))
        start == beforeRangeLength(sel)
        newEntity == [id |-> NewId(t, r), text |-> selectedText,
                      label |-> label_map[button], start |-> start,
                      end |-> start + Len(selectedText)]
    IN  IF ~triggered
        THEN [entities |-> current_entities,
              message |-> "Select some text and click a label button"]
        ELSE IF button \notin DOMAIN label_map
        THEN [entities |-> current_entities, message |-> "No label selected"]
        ELSE IF selectedText = <<>>
        THEN [entities |-> current_entities, message |-> "No text selected"]
        ELSE [entities |-> Append(current_entities, Stamp(newEntity, user, t)),
              message |-> "Labeled"]

\* A click on a label button of B with a selection of S, at a time of T, with a
\* random draw of R.
AddEntity(B, S, T, R) ==
    \E button \in B, sel \in S, t \in T, r \in R :
        LET res == add_entity(entities, text, TRUE, button, sel, t, r, currentUser)
            added == res.message = "Labeled"
        IN  /\ Len(entities) < MaxEntities
            /\ Len(annotationHistory) < MaxHistory
            /\ entities' = res.entities
            /\ selection_info' = res.message
            /\ now' = t
            /\ annotationHistory' =
                 IF added
                 THEN Append(annotationHistory,
                             record("add", res.entities[Len(res.entities)],
                                    currentUser, t, annotationHistory))
                 ELSE annotationHistory
            /\ issued' = IF added THEN issued \cup {NewId(t, r)} ELSE issued
            /\ last' = [Op("add", IF added THEN NewId(t, r) ELSE NoId, added,
                           res.message) EXCEPT
                          !.button = button,
                          !.sel = sel,
                          !.pre = IF added THEN entities ELSE <<>>,
                          !.hpre = IF added THEN Len(annotationHistory) ELSE 0]
            /\ UNCHANGED <<text, currentUser, appVars, tableVars>>
            /\ UNCHANGED setupVars

\* The entity display with a test it does not have: the placeholder is shown
\* for a list of one entity as well.
display_entities_late(ents) ==
    IF Len(ents) <= 1
    THEN [message |-> "No entities labeled yet.", cards |-> <<>>]
    ELSE [message |-> "",
          cards |-> [i \in 1..Len(ents) |->
                        [label |-> ents[i].label, text |-> ents[i].text,
                         start |-> ents[i].start, end |-> ents[i].end,
                         index |-> ents[i].id]]]

\* display_entities: the placeholder for an empty list, else one card for each
\* entity, in the order of the list, with its label, text, positions and the
\* remove button of its id.
display_entities(ents) ==
    IF ents = <<>>
    THEN [message |-> "No entities labeled yet.", cards |-> <<>>]
    ELSE [message |-> "",
          cards |-> [i \in 1..Len(ents) |->
                        [label |-> ents[i].label, text |-> ents[i].text,
                         start |-> ents[i].start, end |-> ents[i].end,
                         index |-> ents[i].id]]]

\* float(match.group(1)) of the index in the button's prop_id: a number parses, a
\* quoted string raises ValueError.
ParsesAsFloat(index) == index.pre = <<>>

\* remove_entity with a filter that keeps nothing: a click clears the list.
remove_entity_all(current_entities, triggered, anyClicks, value, index) ==
    IF ~triggered \/ ~anyClicks
    THEN current_entities
    ELSE IF value = 0
    THEN current_entities
    ELSE IF ~ParsesAsFloat(index)
    THEN current_entities
    ELSE <<>>

\* remove_entity: the entity list it returns.
remove_entity(current_entities, triggered, anyClicks, value, index) ==
    IF ~triggered \/ ~anyClicks
    THEN current_entities
    ELSE IF value = 0
    THEN current_entities
    ELSE IF ~ParsesAsFloat(index)
    THEN current_entities
    ELSE SelectSeq(current_entities, LAMBDA e : e.id # index)

\* A click on the remove button of a displayed id (value: its n_clicks), or the
\* callback fired by the creation of the button (value 0).  The callback has one
\* output, the entity list: whatever happened, its result is a list.
RemoveEntity(I, V, T) ==
    \E index \in I, value \in V, t \in T :
        LET res == remove_entity(entities, TRUE, value > 0, value, index)
            hit == SelectSeq(entities, LAMBDA e : e.id = index)
            removed == res # entities
            chained == last.op = "add" /\ last.ok /\ last.id = index /\ value > 0
        IN  /\ Len(annotationHistory) < MaxHistory
            /\ entities' = res
            /\ now' = t
            /\ annotationHistory' =
                 IF removed
                 THEN Append(annotationHistory,
                             record("remove", hit[1], currentUser, t, annotationHistory))
                 ELSE annotationHistory
            /\ last' = [Op("remove", index, removed, "entities") EXCEPT
                          !.n_clicks = value,
                          !.chained = chained,
                          !.pre = IF chained THEN last.pre ELSE <<>>,
                          !.hpre = IF chained THEN last.hpre ELSE 0]
            /\ UNCHANGED <<text, currentUser, selection_info, issued, appVars, tableVars>>
            /\ UNCHANGED setupVars

\* ------------------------------------------------------ multi_user_demo.py

\* The number of entries of a list that have a given value in a given field.
Count(s, field, value) == Len(SelectSeq(s, LAMBDA x : x[field] = value))

\* update_statistics: the counts it computes from the entity list and the
\* history.  entity_counts: entities by label; user_counts: entities by the
\* username of their author; action_counts: history entries by the username of
\* the acting user and by action.
update_statistics(ents, history, current_user) ==
    [total_entities |-> Len(ents),
     entity_counts |->
        [l \in { ents[i].label : i \in DOMAIN ents } |->
            Count(ents, "label", l)],
     user_counts |->
        [n \in { ents[i].username : i \in DOMAIN ents } |->
            Count(ents, "username", n)],
     action_counts |->
        [n \in { history[i].username : i \in DOMAIN history } |->
            [add |-> Count(SelectSeq(history, LAMBDA h : h.username = n), "action", "add"),
             remove |-> Count(SelectSeq(history, LAMBDA h : h.username = n), "action", "remove")]],
     current_user_name |->
        IF current_user = NoUser THEN "Not set" ELSE Username(current_user)]

\* ------------------------------------------------ bigquery_integration.py

\* The tables of the manager, in the order _setup_dataset_and_tables creates them.
Tables == <<"texts", "annotations", "annotation_history", "user_sessions">>

\* How a lookup of something that does not exist fails: with NotFound, as the
\* BigQuery client does, or with a plain Exception, as the mock of the test does.
MissingSignals == {"NotFound", "Exception"}

\* A project with the dataset and the four tables, nothing created by a manager.
Provisioned ==
    [dataset |-> TRUE, tables |-> { Tables[i] : i \in DOMAIN Tables },
     signal |-> "NotFound", created |-> {}]

\* No manager, and the manager a completed construction gives.
NoManager == [state |-> "none", project_id |-> "", dataset_id |-> "", client |-> ""]
Built(project_id, dataset_id) ==
    [state |-> "built", project_id |-> project_id, dataset_id |-> dataset_id,
     client |-> "client"]
Raised == [NoManager EXCEPT !.state = "raised"]

\* _create_table_if_not_exists: get_table, and create_table when it raises
\* NotFound; any other exception is not caught here.
create_table_if_not_exists(proj, table) ==
    IF table \in proj.tables
    THEN [raised |-> FALSE, project |-> proj]
    ELSE IF proj.signal = "NotFound"
    THEN [raised |-> FALSE,
          project |-> [proj EXCEPT !.tables = @ \cup {table},
                                   !.created = @ \cup {table}]]
    ELSE [raised |-> TRUE, project |-> proj]

\* The four _create_..._table calls from the i-th on, up to the first that raises.
RECURSIVE create_tables(_, _)
create_tables(proj, i) ==
    IF i > Len(Tables)
    THEN [raised |-> FALSE, project |-> proj]
    ELSE LET one == create_table_if_not_exists(proj, Tables[i])
         IN  IF one.raised THEN one ELSE create_tables(one.project, i + 1)

\* _setup_dataset_and_tables: get_dataset, create_dataset when it raises
\* NotFound, then the tables; every other exception is logged and raised again.
setup_dataset_and_tables(proj) ==
    IF proj.dataset
    THEN create_tables(proj, 1)
    ELSE IF proj.signal = "NotFound"
    THEN create_tables([proj EXCEPT !.dataset = TRUE, !.created = @ \cup {"dataset"}], 1)
    ELSE [raised |-> TRUE, project |-> proj]

\* BigQueryNERManager(project_id, dataset_id=...): the manager, or the exception
\* of its set-up, and the project it leaves.
BigQueryNERManager(proj, project_id, dataset_id) ==
    LET setup == setup_dataset_and_tables(proj)
    IN  [manager |-> IF setup.raised THEN Raised ELSE Built(project_id, dataset_id),
         project |-> setup.project]

\* A construction of the manager.
Construct ==
    LET res == BigQueryNERManager(project, "test-project-123", "test_ner_labeling")
    IN  /\ manager.state = "none"
        /\ manager' = res.manager
        /\ project' = res.project
        /\ UNCHANGED <<labelerVars, appVars, tableVars>>

\* f"{text_id}_{entity['id']}"
AnnotationId(text_id, id) == [pre |-> <<text_id>> \o id.pre, n |-> id.n]

\* entity.get("confidence", 1.0)
ConfidenceOf(entity) ==
    IF entity.confidence = "absent" THEN "1.0" ELSE entity.confidence

\* The annotation row upload_annotations makes of one entity.  created_at is a
\* TIMESTAMP column: it keeps the instant of the entity's time stamp.
annotation_record(text_id, entity, user_id, username, t) ==
    [annotation_id |-> AnnotationId(text_id, entity.id),
     text_id |-> text_id,
     entity_text |-> entity.text,
     entity_label |-> entity.label,
     start_position |-> entity.start,
     end_position |-> entity.end,
     confidence |-> ConfidenceOf(entity),
     user_id |-> user_id,
     username |-> username,
     created_at |-> IF entity.timestamp = NoTimestamp THEN t ELSE entity.timestamp.t,
     updated_at |-> t,
     is_active |-> TRUE,
     metadata |-> "{}"]

\* The history row upload_annotations makes of one entity.
history_record(text_id, entity, user_id, username, t) ==
    [history_id |-> <<AnnotationId(text_id, entity.id), t>>,
     annotation_id |-> AnnotationId(text_id, entity.id),
     text_id |-> text_id,
     action |-> "create",
     entity_data |-> entity,
     user_id |-> user_id,
     username |-> username,
     timestamp |-> t]

\* What can go wrong in one upload_annotations call: nothing; an exception before
\* the first insert; errors returned by the insert into annotations; errors
\* returned by the insert into annotation_history; a failed status update.
UploadFaults == {"none", "exception", "annotations", "history", "status"}

\* upload_annotations: what it returns and the tables it leaves.
upload_annotations(text_id, ents, user_id, username, t, fault) ==
    LET annotation_records ==
            [i \in 1..Len(ents) |-> annotation_record(text_id, ents[i], user_id, username, t)]
        history_records ==
            [i \in 1..Len(ents) |-> history_record(text_id, ents[i], user_id, username, t)]
        completed == [texts_status EXCEPT ![text_id] = "completed"]
        tables(a, h, s) == [annotations |-> a, annotation_history |-> h, texts_status |-> s]
    IN  IF ents = <<>>
        THEN [ok |-> TRUE,
              tables |-> tables(annotations, annotation_history,
                                IF fault = "status" THEN texts_status ELSE completed)]
        ELSE IF fault \in {"exception", "annotations"}
        THEN [ok |-> FALSE,
              tables |-> tables(annotations, annotation_history, texts_status)]
        ELSE IF fault = "history"
        THEN [ok |-> FALSE,
              tables |-> tables(annotations \o annotation_records, annotation_history,
                                texts_status)]
        ELSE [ok |-> TRUE,
              tables |-> tables(annotations \o annotation_records,
                                annotation_history \o history_records,
                                IF fault = "status" THEN texts_status ELSE completed)]

\* The entity load_existing_annotations makes of one row.  The time stamp is the
\* isoformat() of the stored instant.
annotation_of(row) ==
    [id |-> row.annotation_id, text |-> row.entity_text, label |-> row.entity_label,
     start |-> row.start_position, end |-> row.end_position,
     user_id |-> row.user_id, username |-> row.username,
     timestamp |-> Timestamp("+00:00", row.created_at),
     confidence |-> row.confidence, metadata |-> "{}"]

\* The orders ORDER BY start_position may give the rows: every order with the
\* start positions ascending.
OrderedByStart(rows) ==
    { [i \in 1..Len(rows) |-> rows[p[i]]] :
        p \in { q \in [1..Len(rows) -> 1..Len(rows)] :
                  /\ \A i, j \in 1..Len(rows) : i # j => q[i] # q[j]
                  /\ \A i, j \in 1..Len(rows) :
                        i < j => rows[q[i]].start_position <= rows[q[j]].start_position } }

\* load_existing_annotations: the lists it may return.  A failed query is logged
\* and gives the empty list.
load_existing_annotations(text_id, fails) ==
    IF fails
    THEN {<<>>}
    ELSE { [i \in 1..Len(rows) |-> annotation_of(rows[i])] :
             rows \in OrderedByStart(
                 SelectSeq(annotations, LAMBDA r : r.text_id = text_id /\ r.is_active)) }

\* load_texts_for_annotation: the pending texts, by priority, at most `limit`.
load_texts_for_annotation(limit) ==
    LET pending == SelectSeq(TextIds, LAMBDA tid : texts_status[tid] = "pending")
    IN  SubSeq(pending, 1, Min(limit, Len(pending)))

\* LIMIT 1000 of the history query.
HistoryLimit == 1000

\* The orders ORDER BY timestamp DESC may give the rows: every order with the
\* time stamps descending.
OrderedByTimestampDesc(rows) ==
    { [i \in 1..Len(rows) |-> rows[p[i]]] :
        p \in { q \in [1..Len(rows) -> 1..Len(rows)] :
                  /\ \A i, j \in 1..Len(rows) : i # j => q[i] # q[j]
                  /\ \A i, j \in 1..Len(rows) :
                        i < j => rows[q[i]].timestamp >= rows[q[j]].timestamp } }

\* get_annotation_history: the lists of rows it may return.  "" stands for a
\* filter that is not given; a failed query is logged and gives no rows.
get_annotation_history(text_id, user_id, fails) ==
    LET matching == SelectSeq(annotation_history,
                              LAMBDA r : /\ (text_id # "" => r.text_id = text_id)
                                         /\ (user_id # "" => r.user_id = user_id))
    IN  IF fails
        THEN {<<>>}
        ELSE { SubSeq(rows, 1, Min(HistoryLimit, Len(rows))) :
                 rows \in OrderedByTimestampDesc(matching) }

\* The least and the greatest of a set of instants.
MinOf(S) == CHOOSE x \in S : \A y \in S : x <= y
MaxOf(S) == CHOOSE x \in S : \A y \in S : x >= y

\* get_user_statistics: one row for each user id and username among the active
\* rows of the annotations table, counted over those rows.  "" stands for a
\* filter that is not given; a failed query is logged and gives no users.  The
\* rows are a set here: their order is not part of what is counted.
get_user_statistics(user_id, fails) ==
    LET active == SelectSeq(annotations,
                            LAMBDA r : r.is_active /\ (user_id # "" => r.user_id = user_id))
        groups == { <<active[i].user_id, active[i].username>> : i \in DOMAIN active }
        of(g) == SelectSeq(active, LAMBDA r : <<r.user_id, r.username>> = g)
        stats == { [user_id |-> g[1],
                    username |-> g[2],
                    total_annotations |-> Len(of(g)),
                    texts_annotated |->
                        Cardinality({ of(g)[i].text_id : i \in DOMAIN of(g) }),
                    first_annotation |-> MinOf({ of(g)[i].created_at : i \in DOMAIN of(g) }),
                    last_annotation |-> MaxOf({ of(g)[i].created_at : i \in DOMAIN of(g) })] :
                   g \in groups }
    IN  IF fails
        THEN [users |-> {}, total_users |-> 0]
        ELSE [users |-> stats, total_users |-> Cardinality(stats)]

\* ------------------------------------------------------ bigquery_demo.py

\* update_current_text, which every write of the index fires: the text and the
\* entities it gives the labeler.
update_current_text(index, texts_data, fails) ==
    IF texts_data = <<>> \/ index >= Len(texts_data)
    THEN {[text |-> <<>>, entities |-> <<>>]}
    ELSE { [text |-> TextContent(texts_data[index + 1]), entities |-> existing] :
             existing \in IF demo_mode
                          THEN {<<>>}
                          ELSE load_existing_annotations(texts_data[index + 1], fails) }

\* The ids of a list of entities.
IdsOf(ents) == { ents[i].id : i \in 1..Len(ents) }

\* What a write of the index and of the texts does to the labeler.
Show(index, texts_data, fails) ==
    \E shown \in update_current_text(index, texts_data, fails) :
        /\ text' = shown.text
        /\ entities' = shown.entities
        /\ issued' = issued \cup IdsOf(shown.entities)

\* load_texts: the texts and the message it returns; the index it returns is 0.
load_texts(button, batch_size, fails) ==
    IF button = "load-bigquery-btn" /\ ~demo_mode
    THEN IF fails
         THEN [texts |-> <<>>, message |-> "Error loading texts"]
         ELSE IF load_texts_for_annotation(batch_size) # <<>>
         THEN [texts |-> load_texts_for_annotation(batch_size),
               message |-> "Loaded texts from BigQuery"]
         ELSE [texts |-> <<>>, message |-> "No pending texts found in BigQuery"]
    ELSE IF button = "load-demo-btn"
    THEN [texts |-> TextIds, message |-> "Loaded demo texts"]
    ELSE [texts |-> <<>>, message |-> ""]

\* A click on a load button of B.  The Load from BigQuery button is disabled in
\* demo mode.
LoadTexts(B) ==
    \E button \in B, batch_size \in {BatchSize},
       fails \in BOOLEAN, loadFails \in BOOLEAN :
        LET res == load_texts(button, batch_size, fails)
        IN  /\ button = "load-bigquery-btn" => ~demo_mode
            /\ texts_store' = res.texts
            /\ current_text_index' = 0
            /\ status_messages' = res.message
            /\ Show(0, res.texts, loadFails)
            /\ last' = Op("load", NoId, res.texts # <<>>, "")
            /\ UNCHANGED <<annotationHistory, currentUser, now, selection_info>>
            /\ UNCHANGED <<demo_mode, nav_buttons, tableVars>>
            /\ UNCHANGED setupVars

\* navigate_texts with a Next that does not look at the number of texts.
navigate_texts_unbounded(button, current_index, texts_data) ==
    LET total_texts == Len(texts_data)
        index == IF button = "prev-text-btn" /\ current_index > 0
                 THEN current_index - 1
                 ELSE IF button = "next-text-btn"
                 THEN current_index + 1
                 ELSE current_index
    IN  IF texts_data = <<>>
        THEN [index |-> 0, buttons |-> [prev |-> TRUE, next |-> TRUE, save |-> TRUE]]
        ELSE [index |-> index,
              buttons |-> [prev |-> index <= 0, next |-> index >= total_texts - 1,
                           save |-> texts_data = <<>>]]

\* navigate_texts: the index and the disabled flags it returns.
navigate_texts(button, current_index, texts_data) ==
    LET total_texts == Len(texts_data)
        index == IF button = "prev-text-btn" /\ current_index > 0
                 THEN current_index - 1
                 ELSE IF button = "next-text-btn" /\ current_index < total_texts - 1
                 THEN current_index + 1
                 ELSE current_index
    IN  IF texts_data = <<>>
        THEN [index |-> 0, buttons |-> [prev |-> TRUE, next |-> TRUE, save |-> TRUE]]
        ELSE [index |-> index,
              buttons |-> [prev |-> index <= 0, next |-> index >= total_texts - 1,
                           save |-> texts_data = <<>>]]

\* The callback of the Previous and Next buttons.
NavigateTexts ==
    \E button \in {"prev-text-btn", "next-text-btn"}, loadFails \in BOOLEAN :
        LET res == navigate_texts(button, current_text_index, texts_store)
        IN  /\ current_text_index' = res.index
            /\ nav_buttons' = res.buttons
            /\ Show(res.index, texts_store, loadFails)
            /\ last' = Op("navigate", NoId, res.index # current_text_index, "")
            /\ UNCHANGED <<annotationHistory, currentUser, now, selection_info>>
            /\ UNCHANGED <<demo_mode, texts_store, status_messages, tableVars>>
            /\ UNCHANGED setupVars

\* save_annotations_to_bigquery: its message and the tables it leaves.
save_annotations_to_bigquery(ents, current_user, current_index, texts_data, t, fault) ==
    LET unchanged == [annotations |-> annotations,
                      annotation_history |-> annotation_history,
                      texts_status |-> texts_status]
        text_id == texts_data[current_index + 1]
        up == upload_annotations(text_id, ents, current_user, Username(current_user),
                                 t, fault)
    IN  IF texts_data = <<>> \/ current_index >= Len(texts_data)
        THEN [message |-> "", tables |-> unchanged]
        ELSE IF current_user = NoUser \/ Username(current_user) = ""
        THEN [message |-> "Please set a username before saving annotations",
              tables |-> unchanged]
        ELSE IF demo_mode
        THEN [message |-> "Demo: Would save annotations", tables |-> unchanged]
        ELSE IF up.ok
        THEN [message |-> "Saved annotations to BigQuery", tables |-> up.tables]
        ELSE [message |-> "Failed to save annotations to BigQuery", tables |-> up.tables]

\* The Save callback with the entity list among its outputs, cleared when the
\* upload fails.
SaveAnnotationsClearing(T) ==
    \E t \in T, fault \in UploadFaults :
        LET res == save_annotations_to_bigquery(entities, currentUser, current_text_index,
                                                texts_store, t, fault)
            saved == res.message = "Saved annotations to BigQuery"
        IN  /\ Len(annotations) + Len(entities) <= MaxRows
            /\ status_messages' = res.message
            /\ annotations' = res.tables.annotations
            /\ annotation_history' = res.tables.annotation_history
            /\ texts_status' = res.tables.texts_status
            /\ now' = t
            /\ last' = Op("save", NoId, saved, "")
            /\ entities' = IF saved THEN entities ELSE <<>>
            /\ UNCHANGED <<text, annotationHistory, currentUser, selection_info, issued>>
            /\ UNCHANGED <<demo_mode, texts_store, current_text_index, nav_buttons>>
            /\ UNCHANGED setupVars

\* The callback of the Save button.
SaveAnnotations(T) ==
    \E t \in T, fault \in UploadFaults :
        LET res == save_annotations_to_bigquery(entities, currentUser, current_text_index,
                                                texts_store, t, fault)
        IN  /\ Len(annotations) + Len(entities) <= MaxRows
            /\ status_messages' = res.message
            /\ annotations' = res.tables.annotations
            /\ annotation_history' = res.tables.annotation_history
            /\ texts_status' = res.tables.texts_status
            /\ now' = t
            /\ last' = Op("save", NoId, res.message = "Saved annotations to BigQuery", "")
            /\ UNCHANGED <<text, entities, annotationHistory, currentUser,
                           selection_info, issued>>
            /\ UNCHANGED <<demo_mode, texts_store, current_text_index, nav_buttons>>
            /\ UNCHANGED setupVars

\* The keys of the user_activity dict, in the order a dict keeps them: the
\* usernames of the history in the order of their first entry.
ActivityKeys(history) ==
    LET first == SelectSeq([i \in 1..Len(history) |-> i],
                           LAMBDA i : \A j \in 1..(i - 1) :
                                         history[j].username # history[i].username)
    IN  [k \in 1..Len(first) |-> history[first[k]].username]

\* update_statistics_dashboard: the numbers on its cards.  user_activity counts
\* the history entries by username and action; max() over its keys gives the first
\* key, in the order of the dict, whose sum no other key exceeds.  With an empty
\* history there is no Most Active card: "" and 0 stand for it.
update_statistics_dashboard(ents, history, current_index, texts_data) ==
    LET keys == ActivityKeys(history)
        of(n) == SelectSeq(history, LAMBDA h : h.username = n)
        sum(n) == Count(of(n), "action", "add") + Count(of(n), "action", "remove")
        best == CHOOSE k \in 1..Len(keys) :
                    /\ \A j \in 1..Len(keys) : sum(keys[j]) <= sum(keys[k])
                    /\ \A j \in 1..(k - 1) : sum(keys[j]) < sum(keys[k])
    IN  [total_entities |-> Len(ents),
         texts_completed |-> IF texts_data # <<>> THEN current_index ELSE 0,
         total_texts |-> Len(texts_data),
         most_active_user |-> IF history = <<>> THEN "" ELSE keys[best],
         total_actions |-> IF history = <<>> THEN 0 ELSE sum(keys[best])]

\* "Show last 10 actions" of the audit trail.
AuditLimit == 10

\* history[-10:]: the last ten entries of the list, in the order of the list.
LastOf(history, n) ==
    SubSeq(history, IF Len(history) > n THEN Len(history) - n + 1 ELSE 1, Len(history))

\* handle_export_actions: the rows the audit trail shows after a click on
\* view-audit-btn, from top to bottom; any other trigger shows no audit rows.
handle_export_actions(button_id, history) ==
    IF button_id = "view-audit-btn"
    THEN LastOf(history, AuditLimit)
    ELSE <<>>

\* ------------------------------------------------------- specifications

\* The buttons as the layout declares them: all three disabled.
ButtonsDisabled == [prev |-> TRUE, next |-> TRUE, save |-> TRUE]

InitApp ==
    /\ texts_store = <<>>
    /\ current_text_index = 0
    /\ nav_buttons = ButtonsDisabled
    /\ status_messages = ""
    /\ texts_status = [tid \in { TextIds[i] : i \in DOMAIN TextIds } |-> "pending"]
    /\ annotations = <<>>
    /\ annotation_history = <<>>

InitLabeler ==
    /\ entities = <<>>
    /\ annotationHistory = <<>>
    /\ currentUser = NoUser
    /\ now = 0
    /\ selection_info = ""
    /\ issued = {}
    /\ last = Op("init", NoId, FALSE, "")

\* working_demo.py: the sample text on display, no BigQuery manager.
Init ==
    /\ text = SAMPLE_TEXT
    /\ demo_mode = TRUE
    /\ InitLabeler
    /\ InitApp
    /\ project = Provisioned
    /\ manager = NoManager

\* The labeler of working_demo.py with every clock reading and random draw, on
\* selections of single words.
Next ==
    \/ AddEntity({"btn-person"}, Words(text), Clock(now), Rand)
    \/ RemoveEntity(issued, {0, 1}, Clock(now))

Spec == Init /\ [][Next]_vars

\* The labeler of working_demo.py with every selection of the page, one click a
\* millisecond.
NextSpans ==
    \/ AddEntity(Buttons, Selections(text), Later(now), {0})
    \/ RemoveEntity(issued, {0, 1}, Later(now))

SpecSpans == Init /\ [][NextSpans]_vars

\* bigquery_demo.py after its first update_current_text: no text on display; the
\* manager was built.
InitBQ ==
    /\ text = <<>>
    /\ demo_mode = FALSE
    /\ InitLabeler
    /\ InitApp
    /\ project = Provisioned
    /\ manager = Built("your-project-id", "ner_labeling")

\* The least random draw that gives an id no remove button was displayed for.
FreshDraw(t) ==
    { r \in Rand : /\ NewId(t, r) \notin issued
                   /\ \A q \in 0..(r - 1) : NewId(t, q) \in issued }

\* The labeler of bigquery_demo.py connected to BigQuery: words labeled with ids
\* that differ, removed by the buttons on display, texts loaded from the tables,
\* shown and saved, all within one millisecond.
NextBQ ==
    \/ SetUser
    \/ Len(annotationHistory) < MaxEdits
         /\ AddEntity({"btn-person"}, Words(text), SameMs(now), FreshDraw(now))
    \/ Len(annotationHistory) < MaxEdits /\ RemoveEntity(IdsOf(entities), {1}, SameMs(now))
    \/ LoadTexts({"load-bigquery-btn"})
    \/ NavigateTexts
    \/ Len(annotations) + Len(entities) <= MaxStored /\ SaveAnnotations(SameMs(now))

SpecBQ == InitBQ /\ [][NextBQ]_vars

\* The ledger of bigquery_demo.py connected to BigQuery: words labeled within one
\* millisecond with two of the random draws, and saves up to the first one that
\* stores rows.
NextLedger ==
    \/ SetUser
    \/ Len(annotationHistory) < MaxEdits
         /\ AddEntity({"btn-person"}, Words(text), SameMs(now), {0, 1})
    \/ LoadTexts({"load-bigquery-btn"})
    \/ annotations = <<>> /\ SaveAnnotations(SameMs(now))

SpecLedger == InitBQ /\ [][NextLedger]_vars

\* The labeler of multi_user_demo.py: the sample text, labeled and unlabeled by
\* users that take turns in one session, within one millisecond.
NextUsers ==
    \/ SetUserFrom(Annotators)
    \/ AddEntity({"btn-person"}, Words(text), SameMs(now), FreshDraw(now))
    \/ RemoveEntity(IdsOf(entities), {1}, SameMs(now))

SpecUsers == Init /\ [][NextUsers]_vars

\* The dashboard of bigquery_demo.py: texts loaded from the tables, labeled and
\* unlabeled by users that take turns in one session, within one millisecond.
NextDashboard ==
    \/ SetUserFrom(Annotators)
    \/ LoadTexts({"load-bigquery-btn"})
    \/ AddEntity({"btn-person"}, Words(text), SameMs(now), FreshDraw(now))
    \/ RemoveEntity(IdsOf(entities), {1}, SameMs(now))

SpecDashboard == InitBQ /\ [][NextDashboard]_vars

\* The construction of the manager, as test_manager_initialization does it, on
\* every project: the dataset and each table there or not, a missing one
\* signalled in either way.
InitSetup ==
    /\ text = <<>>
    /\ demo_mode = TRUE
    /\ InitLabeler
    /\ InitApp
    /\ project \in [dataset : BOOLEAN,
                    tables : SUBSET { Tables[i] : i \in DOMAIN Tables },
                    signal : MissingSignals,
                    created : {{}}]
    /\ manager = NoManager

NextSetup == Construct

SpecSetup == InitSetup /\ [][NextSetup]_vars

\* The navigation of bigquery_demo.py connected to BigQuery: texts loaded, shown
\* one after the other and saved, so that later loads give fewer texts.
NextNav ==
    \/ SetUser
    \/ LoadTexts({"load-bigquery-btn"})
    \/ NavigateTexts
    \/ SaveAnnotations(Clock(now))

SpecNav == InitBQ /\ [][NextNav]_vars

\* -------------------------------------------------------- the properties

\* The entity a successful add appended: the last of the list.
Added == entities[Len(entities)]

\* The span the add callback computes for a selection.
SpanOf(content, sel) ==
    [start |-> beforeRangeLength(sel),
     end |-> beforeRangeLength(sel) + Len(trim(selectionToString(content, sel)))]

\* A span that is empty, starts before the text or ends after it.
BadSpan(span, content) ==
    span.start = span.end \/ span.start < 0 \/ span.end > Len(content)

\* C1: a remove of the id of the entity just added restores the entity list to
\* its value before the add, and the history then holds exactly two more entries
\* than before the add: an add entry followed by a remove entry, for that entity.
C1_AddThenRemoveRestores ==
    (last.op = "remove" /\ last.chained) =>
        /\ entities = last.pre
        /\ Len(annotationHistory) = last.hpre + 2
        /\ annotationHistory[last.hpre + 1].action = "add"
        /\ annotationHistory[last.hpre + 1].entity.id = last.id
        /\ annotationHistory[last.hpre + 2].action = "remove"
        /\ annotationHistory[last.hpre + 2].entity.id = last.id

\* C2: a click on the remove button of an id that is not in the entity list fails
\* with a NotFoundError outcome and leaves the entity list and the history as
\* they were.
C2_RemoveAbsentFails ==
    [][(last'.op = "remove" /\ last'.n_clicks > 0 /\ last'.id \notin IdsOf(entities))
          => /\ last'.result = "NotFoundError"
             /\ entities' = entities
             /\ annotationHistory' = annotationHistory]_vars

\* C3: an add whose span is empty, starts before the text or ends after it is
\* rejected and leaves the entity list unchanged.
C3_BadSpanRejected ==
    [][(last'.op = "add" /\ BadSpan(SpanOf(text, last'.sel), text))
          => ~last'.ok /\ entities' = entities]_vars

\* C4: every entity of the entity list has 0 <= start < end <= the length of the
\* text on display.
C4_SpanWithinText ==
    \A i \in DOMAIN entities :
        /\ 0 <= entities[i].start
        /\ entities[i].start < entities[i].end
        /\ entities[i].end <= Len(text)

\* C5: the text of the entity an add makes of a selection within the text, be it
\* one that starts or ends with white space, is content[start:end].
C5_TextIsSlice ==
    (last.op = "add" /\ last.ok /\ last.sel \in InContainer(text)) =>
        Added.text = Slice(text, Added.start, Added.end)

\* The id of the text on display, "" when there is none.
TextOnDisplay ==
    IF texts_store = <<>> \/ current_text_index >= Len(texts_store)
    THEN ""
    ELSE texts_store[current_text_index + 1]

\* What a query for the annotations of the text on display may return now.
Reloaded == load_existing_annotations(TextOnDisplay, FALSE)

\* The span, label and text of an entity.
Core(e) == [start |-> e.start, end |-> e.end, label |-> e.label, text |-> e.text]

\* The fields of the entity record that crosses to the tables and back.
Fields(e) ==
    [id |-> e.id, text |-> e.text, label |-> e.label, start |-> e.start,
     end |-> e.end, confidence |-> e.confidence, user_id |-> e.user_id,
     username |-> e.username, timestamp |-> e.timestamp]

\* Two lists with the same spans, labels and texts, one for one, in any order.
SameAnnotations(a, b) ==
    /\ Len(a) = Len(b)
    /\ \E p \in Permutations(1..Len(a)) :
          \A i \in 1..Len(a) : Core(a[i]) = Core(b[p[i]])

\* C6: while a text stays on display, a load, a navigation or a save keeps every
\* entity of the entity list: only a remove for its id takes an entity out.
C6_OnlyRemoveRemoves ==
    [][(last'.op \in {"load", "navigate", "save"} /\ TextOnDisplay' = TextOnDisplay)
          => \A i \in DOMAIN entities :
                \E j \in DOMAIN entities' : entities'[j] = entities[i]]_vars

\* C7: after a successful save, load_existing_annotations of the saved text
\* returns exactly the saved entity list: one entity for each saved entity, with
\* its start, end, label and text, none from an earlier save, none removed.
C7_LoadReturnsSnapshot ==
    (last.op = "save" /\ last.ok) =>
        \A loaded \in Reloaded : SameAnnotations(loaded, entities)

\* C8: an entity a user made reads back from the tables with the author it had
\* when it was handed to the save, whoever the saving user was.
C8_AuthorKept ==
    \A loaded \in Reloaded :
        \A i \in DOMAIN loaded, j \in DOMAIN annotation_history :
            (/\ annotation_history[j].annotation_id = loaded[i].id
             /\ annotation_history[j].entity_data.user_id \in Users) =>
                /\ loaded[i].user_id = annotation_history[j].entity_data.user_id
                /\ loaded[i].username = annotation_history[j].entity_data.username

\* C9: after a successful save every saved entity reads back with the same id,
\* text, label, start, end, confidence, user_id, username and timestamp.
C9_RoundTrip ==
    (last.op = "save" /\ last.ok) =>
        \A loaded \in Reloaded :
            \A i \in DOMAIN entities :
                \E j \in DOMAIN loaded : Fields(loaded[j]) = Fields(entities[i])

\* C10: a save that does not succeed leaves the entity list and the annotation
\* history of the labeler as they were.
C10_FailedSaveKeepsState ==
    [][(last'.op = "save" /\ ~last'.ok)
          => entities' = entities /\ annotationHistory' = annotationHistory]_vars

\* A save failed in upload_annotations, with entities and history in memory.
C10_FailedSaveReached ==
    /\ last.op = "save"
    /\ status_messages = "Failed to save annotations to BigQuery"
    /\ entities # <<>>
    /\ annotationHistory # <<>>

\* C11: whenever a save has reported success for a text, the status of that text
\* in the texts table is completed.
C11_SavedIsCompleted ==
    (last.op = "save" /\ last.ok) => texts_status[TextOnDisplay] = "completed"

\* C12: the status of a text changes only from pending to in_progress and from
\* in_progress to completed.
C12_StatusTransitions ==
    [][\A i \in DOMAIN TextIds :
          texts_status'[TextIds[i]] # texts_status[TextIds[i]] =>
              \/ /\ texts_status[TextIds[i]] = "pending"
                 /\ texts_status'[TextIds[i]] = "in_progress"
              \/ /\ texts_status[TextIds[i]] = "in_progress"
                 /\ texts_status'[TextIds[i]] = "completed"]_vars

\* s is a prefix of t.
IsPrefix(s, t) == Len(s) <= Len(t) /\ SubSeq(t, 1, Len(s)) = s

\* The list in the opposite order.
Reverse(s) == [i \in 1..Len(s) |-> s[Len(s) + 1 - i]]

\* C13: the history only grows at its end, in the labeler and in the
\* annotation_history table, and no two of its entries have the same id.
C13_HistoryAppendOnly ==
    [][/\ IsPrefix(annotationHistory, annotationHistory')
       /\ IsPrefix(annotation_history, annotation_history')
       /\ \A i, j \in DOMAIN annotationHistory' :
              i # j => annotationHistory'[i].id # annotationHistory'[j].id
       /\ \A i, j \in DOMAIN annotation_history' :
              i # j => annotation_history'[i].history_id # annotation_history'[j].history_id]_vars

\* The entities of the add entries of a history whose id no later remove entry
\* has.
Replay(history) ==
    { history[i].entity : i \in { k \in DOMAIN history :
        /\ history[k].action = "add"
        /\ \A j \in DOMAIN history :
              (j > k /\ history[j].action = "remove")
                  => history[j].entity.id # history[k].entity.id } }

\* C14: the entities of the entity list are those the replay of the history
\* gives: the added ones that no later entry removes.
C14_ListIsReplay ==
    { entities[i] : i \in DOMAIN entities } = Replay(annotationHistory)

\* C15: the history reads back in the order its entries were written: the rows
\* get_annotation_history returns, reversed, are the rows in the order of the
\* calls and, within one upload, of the entities.
C15_HistoryInCallOrder ==
    \A rows \in get_annotation_history("", "", FALSE) :
        Reverse(rows) = annotation_history

\* C16: the audit view shows the most recent action first: the top row of the
\* audit trail is the entry written last.
C16_AuditNewestFirst ==
    LET view == handle_export_actions("view-audit-btn", annotationHistory)
    IN  Len(annotationHistory) >= 2 =>
            view[1] = annotationHistory[Len(annotationHistory)]

\* C17: the action statistics count actions for each user id: the total the
\* statistics give for a user is the number of add and remove entries with that
\* user id, and the live count is the number of entities on the list.
C17_ActionsByUserId ==
    LET stats == update_statistics(entities, annotationHistory, currentUser)
    IN  /\ stats.total_entities = Len(entities)
        /\ \A u \in Annotators :
              LET authored == Count(annotationHistory, "user_id", u)
              IN  authored > 0 =>
                     stats.action_counts[Username(u)].add
                        + stats.action_counts[Username(u)].remove = authored

\* The total get_user_statistics reports for a user: 0 when it has no row.
TotalFor(u) ==
    LET rows == { r \in get_user_statistics("", FALSE).users : r.user_id = u }
    IN  IF rows = {} THEN 0 ELSE (CHOOSE r \in rows : TRUE).total_annotations

\* C18: get_user_statistics mirrors the statistics of the ledger: after a save
\* of a session in which one user did every action and the list is the replay
\* of the history, the total it reports for that user is the number of adds and
\* removes the user performed.
C18_StatsMirrorLedger ==
    ( /\ last.op = "save" /\ last.ok
      /\ \A i \in DOMAIN annotationHistory : annotationHistory[i].user_id = currentUser
      /\ C14_ListIsReplay )
    => TotalFor(currentUser) = Len(annotationHistory)

\* C19: the entity list is sorted by start, ascending, whatever the order of
\* the adds.
C19_SortedByStart ==
    \A i, j \in DOMAIN entities : i < j => entities[i].start <= entities[j].start

\* C20: a successful add gives its entity an id that no entity added before it
\* had, the removed ones included.
C20_FreshId ==
    [][(last'.op = "add" /\ last'.ok) => last'.id \notin issued]_vars

\* C21: while no user is set, an add, a remove or a save is rejected and leaves
\* the entity list, the history and the tables as they were.
C21_NoUserNoEdit ==
    [][(currentUser = NoUser /\ last' # last /\ last'.op \in {"add", "remove", "save"})
          => /\ ~last'.ok
             /\ entities' = entities
             /\ annotationHistory' = annotationHistory
             /\ tableVars' = tableVars]_vars

\* C22: every failure differs from a success and from doing nothing: with a
\* text on display, a failed load of its annotations gives no list a successful
\* load may give, a failed history query gives no rows a successful one may
\* give, an upload whose status update failed does not report what an upload
\* without a failure reports, and a click on the remove button of an id that is
\* not on the list returns something else than the callback fired with no click.
C22_FailuresDistinguishable ==
    TextOnDisplay # "" =>
        /\ load_existing_annotations(TextOnDisplay, TRUE)
              \cap load_existing_annotations(TextOnDisplay, FALSE) = {}
        /\ get_annotation_history("", "", TRUE)
              \cap get_annotation_history("", "", FALSE) = {}
        /\ upload_annotations(TextOnDisplay, entities, currentUser,
                              Username(currentUser), now, "status").ok
              # upload_annotations(TextOnDisplay, entities, currentUser,
                                   Username(currentUser), now, "none").ok
        /\ \A index \in issued \ IdsOf(entities) :
              remove_entity(entities, TRUE, TRUE, 1, index)
                 # remove_entity(entities, TRUE, FALSE, 0, index)

\* Two entities whose spans have a character in common.
Overlap(a, b) == a.start < b.end /\ b.start < a.end

\* C23: an add of a span that is not empty and lies within the text succeeds
\* whatever the list holds, overlapping and identical spans included: the list
\* after it is the list before it with the new entity, of that span, at its end.
C23_OverlapAccepted ==
    [][(last'.op = "add" /\ last' # last /\ ~BadSpan(SpanOf(text, last'.sel), text))
          => /\ last'.ok
             /\ Len(entities') = Len(entities) + 1
             /\ SubSeq(entities', 1, Len(entities)) = entities
             /\ entities'[Len(entities')].start = SpanOf(text, last'.sel).start
             /\ entities'[Len(entities')].end = SpanOf(text, last'.sel).end]_vars

\* C23: an add has put an entity on the list whose span overlaps the span of an
\* entity that was there, and both are on the list.
C23_OverlapReached ==
    /\ last.op = "add" /\ last.ok
    /\ last.sel \in InContainer(text)
    /\ Len(entities) = 2
    /\ Overlap(entities[1], entities[2])
    /\ \A i \in DOMAIN entities :
          entities[i].text = Slice(text, entities[i].start, entities[i].end)

\* The number of history entries of a user, and the place of the first of them.
Authored(u) == Count(annotationHistory, "user_id", u)
FirstEntry(u) ==
    MinOf({ i \in DOMAIN annotationHistory : annotationHistory[i].user_id = u })

\* C24: the most active user of the dashboard is a user with the highest number
\* of actions, shown with that number, and among the users with that number the
\* one whose first entry in the history is the earliest.
C24_MostActiveUser ==
    LET shown == update_statistics_dashboard(entities, annotationHistory,
                                             current_text_index, texts_store)
        actors == { annotationHistory[i].user_id : i \in DOMAIN annotationHistory }
    IN  annotationHistory # <<>> =>
            \E u \in actors :
                /\ Username(u) = shown.most_active_user
                /\ Authored(u) = shown.total_actions
                /\ \A v \in actors :
                      \/ Authored(v) < Authored(u)
                      \/ Authored(v) = Authored(u) /\ FirstEntry(u) <= FirstEntry(v)

\* What a click on a label button does when it labels: the list grows by one
\* entity with the label of the button, and the display shows it on its last card.
Labels(ents, after, button) ==
    /\ Len(after) = Len(ents) + 1
    /\ SubSeq(after, 1, Len(ents)) = ents
    /\ after[Len(after)].label = label_map[button]
    /\ Len(display_entities(after).cards) = Len(after)
    /\ display_entities(after).cards[Len(after)].label = label_map[button]

\* The display shows the placeholder exactly when the list is empty.
PlaceholderIffEmpty(ents) ==
    display_entities(ents).message = "No entities labeled yet." <=> ents = <<>>

\* C25, as stated: the display shows 'No entities labeled yet.' exactly when the
\* list is empty; a click on a label button with a selection that is not empty
\* grows the list by one entity with the label of the button, which the display
\* shows; a click with no selection leaves the list as it was.
C25_SelectionLabeled ==
    [][/\ PlaceholderIffEmpty(entities')
       /\ (last'.op = "add" /\ last' # last) =>
             IF selectionToString(text, last'.sel) # <<>>
             THEN Labels(entities, entities', last'.button)
             ELSE entities' = entities]_vars

\* C25, amended: the same with a selection that is not empty once the white
\* space at its ends is trimmed; a click with a selection of nothing or of white
\* space only leaves the list as it was.
C25_TrimmedSelectionLabeled ==
    [][/\ PlaceholderIffEmpty(entities')
       /\ (last'.op = "add" /\ last' # last) =>
             IF trim(selectionToString(text, last'.sel)) # <<>>
             THEN Labels(entities, entities', last'.button)
             ELSE entities' = entities]_vars

\* C25: a click on the ORGANIZATION button with a selection that has white space
\* at an end has labeled, and the display shows its entity.
C25_LabeledReached ==
    /\ last.op = "add" /\ last.ok /\ last.button = "btn-org"
    /\ selectionToString(text, last.sel) # trim(selectionToString(text, last.sel))
    /\ display_entities(entities).cards[Len(entities)].label = "ORGANIZATION"

\* C26: the construction of the manager completes on every project: what a
\* failed lookup showed to be missing is created, what exists is not created
\* again, and the manager then has its project id, dataset id and client.
C26_ConstructionCompletes ==
    [][manager' # manager =>
          /\ manager'.state = "built"
          /\ manager'.project_id # "" /\ manager'.dataset_id # "" /\ manager'.client # ""
          /\ project'.dataset
          /\ project'.tables = { Tables[i] : i \in DOMAIN Tables }
          /\ project'.created =
                (IF project.dataset THEN {} ELSE {"dataset"})
                   \cup ({ Tables[i] : i \in DOMAIN Tables } \ project.tables)]_vars

\* C27: the disabled flags of the Previous, Next and Save buttons agree with
\* the index and the loaded texts: with texts loaded Save is enabled, Next is
\* enabled exactly below the last index and Previous exactly above the first.
C27_ButtonsAgree ==
    texts_store # <<>> =>
        /\ ~nav_buttons.save
        /\ nav_buttons.next = (current_text_index >= Len(texts_store) - 1)
        /\ nav_buttons.prev = (current_text_index <= 0)

\* The number of rows of a table for a text.
RowsFor(table, text_id) == Len(SelectSeq(table, LAMBDA r : r.text_id = text_id))

\* C28: an upload stores all of its rows or none: the annotations table and the
\* annotation_history table hold the same number of rows for each text, and
\* after a save that failed they are what they were before it.
C28_AllOrNothing ==
    [][/\ \A i \in DOMAIN TextIds :
             RowsFor(annotations', TextIds[i]) = RowsFor(annotation_history', TextIds[i])
       /\ (last'.op = "save" /\ ~last'.ok) =>
             annotations' = annotations /\ annotation_history' = annotation_history]_vars

\* C29: the index is within the loaded texts, and 0 when there are none; it is 0
\* after a load; Previous at the first text and Next at the last leave it as
\* it is.
C29_IndexInRange ==
    /\ IF texts_store = <<>>
       THEN current_text_index = 0
       ELSE current_text_index \in 0..(Len(texts_store) - 1)
    /\ last.op = "load" => current_text_index = 0
    /\ texts_store # <<>> =>
          /\ navigate_texts("prev-text-btn", 0, texts_store).index = 0
          /\ navigate_texts("next-text-btn", Len(texts_store) - 1, texts_store).index
                = Len(texts_store) - 1

\* C29: with two texts loaded, a click on Next at the last of them has left the
\* index where it was.
C29_NextAtLastReached ==
    /\ last.op = "navigate" /\ ~last.ok
    /\ Len(texts_store) = 2
    /\ current_text_index = 1

\* `after` is `before` without some of its entries, the others in their order.
IsSubsequence(after, before) ==
    \E f \in [DOMAIN after -> DOMAIN before] :
        /\ \A j, k \in DOMAIN after : j < k => f[j] < f[k]
        /\ \A j \in DOMAIN after : after[j] = before[f[j]]

====
